---- MODULE Spec2Model ----
(***************************************************************************)
(* logs-ecstask: the trace operation (runTrace), the service-event fetch,  *)
(* the token-paginated CloudWatch Logs fetch and the Timeline they fill.   *)
(*                                                                         *)
(* The repository holds two revisions of the program: the current one      *)
(* (main.go = unnamed/part_003, ecs.go = unnamed/part_001, processor.go,   *)
(* timeline.go) and the earlier single-file one (unnamed/part_002).  The   *)
(* variable `variant` selects the revision a behaviour runs.               *)
(***************************************************************************)
EXTENDS Integers, Sequences, FiniteSets

(***************************************************************************)
(* Bounds of the model.                                                    *)
(***************************************************************************)
MaxContainers == 2      \* container definitions in a task definition
MaxPageLen    == 3      \* log records in one GetLogEvents response
MaxSvcEvents  == 2      \* lifecycle events of a service
MaxEvents     == 6      \* events the remote sources deliver in one trace
MaxAdds       == 3      \* Add calls on a Timeline used on its own
MaxTs         == 2      \* distinct timestamps of the events added to it
MaxPageSize   == 3      \* page size the terminal height leaves
MaxLines      == 4      \* lines the standard input holds

(***************************************************************************)
(* Program constants.                                                      *)
(***************************************************************************)
maxIteration == 10
chromeLines  == 5        \* tl.pageSize = height - 5
Millisecond  == 1000000  \* time.Millisecond, in nanoseconds

(***************************************************************************)
(* Values.                                                                 *)
(***************************************************************************)
NIL     == "nil"                 \* a nil pointer
NoErr   == <<>>                  \* a nil error
NoResp  == "-"                   \* history: no response yet
ErrResp == "error"               \* history: the request failed
Tokens  == {"", "A"}            \* non-nil *string forward tokens
RespTokens == Tokens \cup {NIL}  \* out.NextForwardToken

Variants == {"current", "legacy"}

LogDriverAwslogs == "awslogs"
LogConfigs == {NIL, LogDriverAwslogs, "json-file"}  \* nil, or the LogDriver

TaskArn   == <<"arn:aws:ecs:r:1:task", "cl", "t1">>  \* '/'-separated segments
LogGroup  == "grp"               \* Options["awslogs-group"]
Prefix    == "pfx"               \* Options["awslogs-stream-prefix"]
Groups    == {"service:", "family:"}  \* the prefix of task.Group
SvcName   == "orders-svc"        \* task.Group after "service:"

ContainerNames == <<"c1", "c2", "c3", "c4">>
ContainerName(i) == ContainerNames[i]

\* The container definitions a task definition may hold.
RECURSIVE SeqsUpTo(_, _)
SeqsUpTo(S, n) ==
    IF n = 0 THEN {<<>>}
    ELSE LET shorter == SeqsUpTo(S, n - 1)
         IN  shorter \cup {Append(s, x) : s \in shorter, x \in S}

ContainerDefsSet ==
    { [i \in 1..Len(s) |-> [Name |-> ContainerName(i), LogConfiguration |-> s[i]]] :
        s \in SeqsUpTo(LogConfigs, MaxContainers) }

\* The k-th record of a log stream and the k-th lifecycle event of a service:
\* timestamps are neither monotonic nor distinct; the message is never nil.
LogRecord(k)    == [Timestamp |-> ((k * 2) % 3) + 1, Message |-> k]
ServiceEvent(k) == [CreatedAt |-> ((((k + 1) * 2) % 3) + 1) * Millisecond, Message |-> k]

(***************************************************************************)
(* Pure functions of the program.                                          *)
(***************************************************************************)
\* aws.ToString: the empty string for a nil pointer
awsToString(p) == IF p = NIL THEN "" ELSE p

newEvent(ts, source, msg) == [Timestamp |-> ts, Source |-> source, Message |-> msg]

\* Mutant: an event equal to one already held is not appended.
Add_Unique(events, evt) ==
    IF \E k \in 1..Len(events) : events[k] = evt THEN events ELSE Append(events, evt)

\* Timeline.Add
Add(events, evt) == Append(events, evt)

\* time.Unix(0, ms*int64(time.Millisecond)), as nanoseconds since the epoch
MsToTime(ms) == ms * Millisecond

\* the events of the log records recs, labelled with the container name
EventsOf(recs, containerName) ==
    [k \in 1..Len(recs) |->
        [Timestamp |-> recs[k].Timestamp * Millisecond,
         Source    |-> containerName,
         Message   |-> recs[k].Message]]

\* Mutant: the loop over out.Events starts at the second record.
AddLogEvents_SkipFirst(events, page, containerName) ==
    IF page = <<>> THEN events
    ELSE [k \in 1..(Len(events) + Len(page) - 1) |->
            IF k <= Len(events) THEN events[k]
            ELSE newEvent(MsToTime(page[k - Len(events) + 1].Timestamp), containerName,
                          page[k - Len(events) + 1].Message)]

\* the loop over out.Events of fetchCloudWatchLogsToTimeline
RECURSIVE AddLogEvents(_, _, _)
AddLogEvents(events, page, containerName) ==
    IF page = <<>> THEN events
    ELSE AddLogEvents(
            Add(events, newEvent(MsToTime(Head(page).Timestamp), containerName,
                                 Head(page).Message)),
            Tail(page), containerName)

\* Mutant: only the first lifecycle event is processed (a recentEventsLimit of 1).
AddServiceEvents_Limited(events, svcEvents) ==
    IF svcEvents = <<>> THEN events
    ELSE Add(events, newEvent(Head(svcEvents).CreatedAt, "SERVICE",
                              Head(svcEvents).Message))

\* the loop over svc.Events of fetchServiceEvents
RECURSIVE AddServiceEvents(_, _)
AddServiceEvents(events, svcEvents) ==
    IF svcEvents = <<>> THEN events
    ELSE AddServiceEvents(
            Add(events, newEvent(Head(svcEvents).CreatedAt, "SERVICE",
                                 Head(svcEvents).Message)),
            Tail(svcEvents))

isAwslogsDriver(logConfig) == logConfig # NIL /\ logConfig = LogDriverAwslogs

\* arn[strings.LastIndex(arn, "/")+1:]
arnToName(arn) == arn[Len(arn)]

\* fmt.Sprintf("%s/%s/%s", prefix, containerName, fullTaskID)
LogStreamName(prefix, containerName, fullTaskID) ==
    <<prefix, "/", containerName, "/", fullTaskID>>

\* the GetLogEventsInput literal
\* aws.Bool(false) (current), aws.Bool(true) (legacy)
StartFromHeadOf(v) == IF v = "current" THEN "false" ELSE "true"
LimitOf(v)         == IF v = "current" THEN 40 ELSE 50

NewInput(v, group, stream) ==
    [LogGroupName |-> group, LogStreamName |-> stream,
     StartFromHead |-> StartFromHeadOf(v), Limit |-> LimitOf(v), NextToken |-> NIL]

NoInput == [LogGroupName |-> NIL, LogStreamName |-> <<>>,
            StartFromHead |-> NIL, Limit |-> 0, NextToken |-> NIL]

\* Mutant: the token is set but StartFromHead is left as it was.
PrepareRequest_KeepsStartFromHead(inp, tok) ==
    IF tok # NIL THEN [inp EXCEPT !.NextToken = tok] ELSE inp

\* if nextToken != nil { input.NextToken = nextToken; input.StartFromHead = nil }
PrepareRequest(inp, tok) ==
    IF tok # NIL THEN [inp EXCEPT !.NextToken = tok, !.StartFromHead = NIL]
    ELSE inp

\* Mutant: the pointers are compared instead of the strings they point to.
TokenRepeated_Pointers(tok, outTok) == FALSE

\* nextToken != nil && *nextToken == aws.ToString(out.NextForwardToken)
TokenRepeated(tok, outTok) == tok # NIL /\ tok = awsToString(outTok)

\* Mutant: the cap is tested one iteration late.
ReachedCap_Late(it) == it > maxIteration

\* iteration >= maxIteration
ReachedCap(it) == it >= maxIteration

(***************************************************************************)
(* Error values: the text of an error, as the sequence of its parts.       *)
(***************************************************************************)
TransportErr == <<"transport error">>

\* fmt.Errorf("failed to describe tasks: %w", err)
DescribeTasksErr(err) == <<"failed to describe tasks: ">> \o err
\* fmt.Errorf("task not found: %s", taskID)
TaskNotFoundErr(taskID) == <<"task not found: ", taskID>>
\* fmt.Errorf("failed to describe task definition: %w", err)
DescribeTaskDefErr(err) == <<"failed to describe task definition: ">> \o err
\* errorStyle.Render("no services found for", serviceName) / "no services found for %s"
NoServicesErr(serviceName) == <<"no services found for", " ", serviceName>>
\* fmt.Errorf("failed to fetch logs for container=%s: %w", containerName, err)
ContainerLogsErr(containerName, err) ==
    <<"failed to fetch logs for container=", containerName, ": ">> \o err

(***************************************************************************)
(* Timeline.sortEvents (current) and the sort of Print (legacy):           *)
(* sort.SliceStable with less = After (current) or Before (legacy).        *)
(***************************************************************************)
\* Mutant: the comparison also holds for equal timestamps.
Less_NotStrict(v, a, b) ==
    IF v = "current" THEN a.Timestamp >= b.Timestamp ELSE a.Timestamp <= b.Timestamp

Less(v, a, b) ==
    IF v = "current" THEN a.Timestamp > b.Timestamp ELSE a.Timestamp < b.Timestamp

RECURSIVE InsertStable(_, _, _)
InsertStable(v, sorted, e) ==
    IF sorted = <<>> THEN <<e>>
    ELSE IF Less(v, e, Head(sorted)) THEN <<e>> \o sorted
         ELSE <<Head(sorted)>> \o InsertStable(v, Tail(sorted), e)

RECURSIVE SortStable(_, _)
SortStable(v, events) ==
    IF events = <<>> THEN <<>>
    ELSE InsertStable(v, SortStable(v, SubSeq(events, 1, Len(events) - 1)),
                      events[Len(events)])

sortEvents(v, events) == SortStable(v, events)

min(a, b) == IF a < b THEN a ELSE b

\* Go's integer division: the quotient is truncated toward zero (b # 0)
Abs(a) == IF a < 0 THEN 0 - a ELSE a
Quot(a, b) ==
    IF (a < 0) = (b < 0) THEN Abs(a) \div Abs(b) ELSE 0 - (Abs(a) \div Abs(b))

\* Print: totalPages := (len(tl.events) + tl.pageSize - 1) / tl.pageSize
TotalPages(n, size) == Quot(n + size - 1, size)

\* getPageEvents: start and end of the slice expression tl.events[start:end]
PageStart(size, page) == page * size
PageEnd(n, size, page) == min(PageStart(size, page) + size, n)

\* the slice expression events[start:end] does not panic: 0 <= start <= end, and
\* end <= len(events) <= cap(events)
SliceOk(n, size, page) ==
    /\ 0 <= PageStart(size, page)
    /\ PageStart(size, page) <= PageEnd(n, size, page)
    /\ PageEnd(n, size, page) <= n

\* Mutant: the page index is ignored, every page is the first one.
getPageEvents_FirstPage(events, size, page) ==
    SubSeq(events, 1, min(size, Len(events)))

getPageEvents(events, size, page) ==
    SubSeq(events, PageStart(size, page) + 1, PageEnd(Len(events), size, page))

\* Mutant: the empty line advances without the comparison with totalPages.
NextPage_Unguarded(page, total) == page + 1

\* Print, on an empty line: if currentPage < totalPages-1 { currentPage++ }
NextPage(page, total) == IF page < total - 1 THEN page + 1 ELSE page

\* the terminal heights term.GetSize reports
TermHeights == (chromeLines - 1)..(chromeLines + MaxPageSize)

(***************************************************************************)
(* State.                                                                  *)
(***************************************************************************)
VARIABLES
    variant,      \* the revision of the program that runs
    pc,           \* position of runTrace
    taskGroup,    \* task.Group of the described task (its prefix)
    defs,         \* defOut.TaskDefinition.ContainerDefinitions
    ci,           \* index of the container definition the loop is at
    timeline,     \* Timeline.events
    traceErr,     \* the error runTrace returns
    errs,         \* the sub-fetch errors runTrace has received
    fetched,      \* indices of the containers a log fetch was invoked for
    printed,      \* number of calls of Timeline.Print
    svcOut,       \* outcome of fetchServiceEvents
    svcErr,       \* the error fetchServiceEvents returned
    svcReceived,  \* svc.Events of the DescribeServices response
    input,        \* the GetLogEventsInput of the running fetch
    iteration,    \* fetch: iteration
    nextToken,    \* fetch: nextToken
    fetchErr,     \* the error the fetch returned
    fetchBase,    \* history: the Timeline when the fetch was called
    requests,     \* history: GetLogEvents calls of this fetch
    lastReq,      \* history: the latest request's NextToken and StartFromHead
    lastResp,     \* history: the forward token of the latest response
    repeatSeen,   \* history: two consecutive responses returned the same token
    received,     \* history: the log records of all responses of this fetch
    failedAt,     \* history: the number of the request that failed (0: none)
    pageSize,     \* Timeline.pageSize
    currentPage,  \* Print: currentPage
    totalPages,   \* Print: totalPages
    stdinOpen,    \* the standard input holds lines (FALSE: it is at its end)
    reads,        \* history: lines the pager has read
    lastLine,     \* history: what the latest scanner.Scan() gave
    renders,      \* history: calls of renderPage
    shown,        \* history: the events of the latest renderPage
    footer,       \* history: X and Y of the latest "Page X/Y"
    added         \* history: the events passed to Add, in the order of the calls

traceVars == <<variant, pc, taskGroup, defs, ci, timeline, traceErr, errs, fetched,
               printed, svcOut, svcErr, svcReceived>>
traceRest == <<variant, taskGroup, defs, ci, traceErr, errs, fetched, printed, svcOut,
               svcErr, svcReceived>>
fetchVars == <<input, iteration, nextToken, fetchErr, fetchBase, requests, lastReq,
               lastResp, repeatSeen, received, failedAt>>
printVars == <<pageSize, currentPage, totalPages, stdinOpen, reads, lastLine, renders,
               shown, footer>>
pagerVars == <<printVars, added>>
vars == <<traceVars, fetchVars, pagerVars>>

NoLine == "-"                    \* history: nothing read yet
EOF    == "EOF"                  \* scanner.Scan() returned false
Lines  == {"", "q", "x"}         \* scanner.Text(): empty, q, anything else

\* the Timeline's pager before Print
PagerIdle ==
    /\ pageSize = 0
    /\ currentPage = 0
    /\ totalPages = 0
    /\ reads = 0
    /\ lastLine = NoLine
    /\ renders = 0
    /\ shown = <<>>
    /\ footer = <<0, 0>>
    /\ added = <<>>

NoReq == [NextToken |-> NIL, StartFromHead |-> NIL]

\* the fetch's locals and history, outside a fetch
FetchIdle ==
    /\ input' = NoInput
    /\ iteration' = 0
    /\ nextToken' = NIL
    /\ fetchErr' = NoErr
    /\ fetchBase' = <<>>
    /\ requests' = 0
    /\ lastReq' = NoReq
    /\ lastResp' = NoResp
    /\ repeatSeen' = FALSE
    /\ received' = <<>>
    /\ failedAt' = 0

Init ==
    /\ variant \in Variants
    /\ pc = "describeTasks"
    /\ taskGroup = NIL
    /\ defs = <<>>
    /\ ci = 0
    /\ timeline = <<>>
    /\ traceErr = NoErr
    /\ errs = <<>>
    /\ fetched = <<>>
    /\ printed = 0
    /\ svcOut = "none"
    /\ svcErr = NoErr
    /\ svcReceived = <<>>
    /\ input = NoInput
    /\ iteration = 0
    /\ nextToken = NIL
    /\ fetchErr = NoErr
    /\ fetchBase = <<>>
    /\ requests = 0
    /\ lastReq = NoReq
    /\ lastResp = NoResp
    /\ repeatSeen = FALSE
    /\ received = <<>>
    /\ failedAt = 0
    /\ PagerIdle
    /\ stdinOpen = FALSE

(***************************************************************************)
(* runTrace: describing the task.                                          *)
(***************************************************************************)
TaskID == arnToName(TaskArn)    \* the taskID argument of runTrace

\* strings.HasPrefix(groupStr, "service:")
HasServicePrefix(g) == g = "service:"

DescribeTasksFail ==
    /\ pc = "describeTasks"
    /\ traceErr' = DescribeTasksErr(TransportErr)
    /\ pc' = "returned"
    /\ UNCHANGED pagerVars
    /\ UNCHANGED <<variant, taskGroup, defs, ci, timeline, errs, fetched, printed,
                   svcOut, svcErr, svcReceived, fetchVars>>

\* len(descOut.Tasks) == 0
DescribeTasksEmpty ==
    /\ pc = "describeTasks"
    /\ traceErr' = TaskNotFoundErr(TaskID)
    /\ pc' = "returned"
    /\ UNCHANGED pagerVars
    /\ UNCHANGED <<variant, taskGroup, defs, ci, timeline, errs, fetched, printed,
                   svcOut, svcErr, svcReceived, fetchVars>>

DescribeTasksOk(g) ==
    /\ pc = "describeTasks"
    /\ taskGroup' = g
    /\ pc' = IF HasServicePrefix(g) THEN "serviceEvents" ELSE "describeTaskDef"
    /\ UNCHANGED pagerVars
    /\ UNCHANGED <<variant, defs, ci, timeline, traceErr, errs, fetched, printed,
                   svcOut, svcErr, svcReceived, fetchVars>>

(***************************************************************************)
(* fetchServiceEvents, and runTrace receiving its result.                  *)
(***************************************************************************)
\* DescribeServices fails: return err
FetchServiceEventsFail ==
    /\ pc = "serviceEvents"
    /\ svcOut' = "transport"
    /\ svcErr' = TransportErr
    /\ pc' = "serviceReturned"
    /\ UNCHANGED pagerVars
    /\ UNCHANGED <<variant, taskGroup, defs, ci, timeline, traceErr, errs, fetched,
                   printed, svcReceived, fetchVars>>

\* len(out.Services) == 0
FetchServiceEventsNotFound ==
    /\ pc = "serviceEvents"
    /\ svcOut' = "notfound"
    /\ svcErr' = NoServicesErr(SvcName)
    /\ pc' = "serviceReturned"
    /\ UNCHANGED pagerVars
    /\ UNCHANGED <<variant, taskGroup, defs, ci, timeline, traceErr, errs, fetched,
                   printed, svcReceived, fetchVars>>

\* svc := out.Services[0], with n lifecycle events
FetchServiceEventsOk(n) ==
    /\ pc = "serviceEvents"
    /\ Len(timeline) + n <= MaxEvents
    /\ LET events == [k \in 1..n |-> ServiceEvent(k)]
       IN  /\ svcReceived' = events
           /\ timeline' = AddServiceEvents(timeline, events)
           /\ added' = added \o [k \in 1..n |->
                                    newEvent(events[k].CreatedAt, "SERVICE",
                                             events[k].Message)]
    /\ svcOut' = "ok"
    /\ svcErr' = NoErr
    /\ pc' = "serviceReturned"
    /\ UNCHANGED printVars
    /\ UNCHANGED <<variant, taskGroup, defs, ci, traceErr, errs, fetched, printed,
                   fetchVars>>

\* if err := fetchServiceEvents(...); err != nil { log.Printf(...) }
AfterServiceEvents ==
    /\ pc = "serviceReturned"
    /\ errs' = IF svcErr # NoErr
               THEN Append(errs, [from |-> "service", err |-> svcErr,
                                  context |-> <<SvcName>>])
               ELSE errs
    /\ pc' = "describeTaskDef"
    /\ UNCHANGED pagerVars
    /\ UNCHANGED <<variant, taskGroup, defs, ci, timeline, traceErr, fetched, printed,
                   svcOut, svcErr, svcReceived, fetchVars>>

(***************************************************************************)
(* runTrace: describing the task definition.                               *)
(***************************************************************************)
\* Mutant: the failure is kept as the result but runTrace goes on to Print.
DescribeTaskDefinitionFail_Continues ==
    /\ pc = "describeTaskDef"
    /\ traceErr' = DescribeTaskDefErr(TransportErr)
    /\ pc' = "print"
    /\ UNCHANGED pagerVars
    /\ UNCHANGED <<variant, taskGroup, defs, ci, timeline, errs, fetched, printed,
                   svcOut, svcErr, svcReceived, fetchVars>>

DescribeTaskDefinitionFail ==
    /\ pc = "describeTaskDef"
    /\ traceErr' = DescribeTaskDefErr(TransportErr)
    /\ pc' = "returned"
    /\ UNCHANGED pagerVars
    /\ UNCHANGED <<variant, taskGroup, defs, ci, timeline, errs, fetched, printed,
                   svcOut, svcErr, svcReceived, fetchVars>>

DescribeTaskDefinitionOk(d) ==
    /\ pc = "describeTaskDef"
    /\ defs' = d
    /\ ci' = 1
    /\ pc' = "containers"
    /\ UNCHANGED pagerVars
    /\ UNCHANGED <<variant, taskGroup, timeline, traceErr, errs, fetched, printed,
                   svcOut, svcErr, svcReceived, fetchVars>>

(***************************************************************************)
(* The loop over the container definitions: processContainerLogs           *)
(* (current) and the loop of runTrace (legacy).                            *)
(***************************************************************************)
\* the range loop is over: processContainerLogs returns nil
ContainersDone ==
    /\ pc = "containers"
    /\ ci > Len(defs)
    /\ pc' = "print"
    /\ UNCHANGED pagerVars
    /\ UNCHANGED <<variant, taskGroup, defs, ci, timeline, traceErr, errs, fetched,
                   printed, svcOut, svcErr, svcReceived, fetchVars>>

\* if !isAwslogsDriver(cdef.LogConfiguration) { continue }
SkipContainer ==
    /\ pc = "containers"
    /\ ci <= Len(defs)
    /\ ~isAwslogsDriver(defs[ci].LogConfiguration)
    /\ ci' = ci + 1
    /\ UNCHANGED pagerVars
    /\ UNCHANGED <<variant, pc, taskGroup, defs, timeline, traceErr, errs, fetched,
                   printed, svcOut, svcErr, svcReceived, fetchVars>>

\* the call of fetchCloudWatchLogsToTimeline, up to the head of its loop
StartFetch ==
    /\ pc = "containers"
    /\ ci <= Len(defs)
    /\ isAwslogsDriver(defs[ci].LogConfiguration)
    /\ input' = NewInput(variant, LogGroup,
                         LogStreamName(Prefix, defs[ci].Name, arnToName(TaskArn)))
    /\ iteration' = 0
    /\ nextToken' = NIL
    /\ fetchErr' = NoErr
    /\ fetchBase' = timeline
    /\ requests' = 0
    /\ lastReq' = NoReq
    /\ lastResp' = NoResp
    /\ repeatSeen' = FALSE
    /\ received' = <<>>
    /\ failedAt' = 0
    /\ fetched' = Append(fetched, ci)
    /\ pc' = "fetch"
    /\ UNCHANGED pagerVars
    /\ UNCHANGED <<variant, taskGroup, defs, ci, timeline, traceErr, errs, printed,
                   svcOut, svcErr, svcReceived>>

(***************************************************************************)
(* fetchCloudWatchLogsToTimeline: one iteration of the loop per action.    *)
(***************************************************************************)
RequestOf(inp) == [NextToken |-> inp.NextToken, StartFromHead |-> inp.StartFromHead]

\* Mutant: a failed request rolls the Timeline back to what it was before the fetch.
GetLogEventsFail_Rollback ==
    /\ pc = "fetch"
    /\ LET req == PrepareRequest(input, nextToken)
       IN  /\ input' = req
           /\ lastReq' = RequestOf(req)
    /\ requests' = requests + 1
    /\ failedAt' = requests + 1
    /\ lastResp' = ErrResp
    /\ fetchErr' = TransportErr
    /\ timeline' = fetchBase
    /\ pc' = "fetchReturned"
    /\ UNCHANGED pagerVars
    /\ UNCHANGED <<traceRest, iteration, nextToken, fetchBase, received, repeatSeen>>

\* GetLogEvents fails: return err
GetLogEventsFail ==
    /\ pc = "fetch"
    /\ LET req == PrepareRequest(input, nextToken)
       IN  /\ input' = req
           /\ lastReq' = RequestOf(req)
    /\ requests' = requests + 1
    /\ failedAt' = requests + 1
    /\ lastResp' = ErrResp
    /\ fetchErr' = TransportErr
    /\ pc' = "fetchReturned"
    /\ UNCHANGED pagerVars
    /\ UNCHANGED <<traceRest, timeline, iteration, nextToken, fetchBase, received,
                   repeatSeen>>

\* GetLogEvents answers with n records and the forward token tok
GetLogEventsOk(n, tok) ==
    /\ pc = "fetch"
    /\ n <= input.Limit
    /\ Len(timeline) + n <= MaxEvents
    /\ LET req  == PrepareRequest(input, nextToken)
           page == [k \in 1..n |-> LogRecord(Len(received) + k)]
       IN  /\ input' = req
           /\ lastReq' = RequestOf(req)
           /\ received' = received \o page
           /\ timeline' = AddLogEvents(timeline, page, defs[ci].Name)
           /\ added' = added \o EventsOf(page, defs[ci].Name)
    /\ requests' = requests + 1
    /\ repeatSeen' = (repeatSeen \/ (tok \in Tokens /\ tok = lastResp))
    /\ lastResp' = tok
    /\ IF TokenRepeated(nextToken, tok)
       THEN /\ pc' = "fetchReturned"
            /\ UNCHANGED <<nextToken, iteration>>
       ELSE /\ nextToken' = tok
            /\ iteration' = iteration + 1
            /\ pc' = IF ReachedCap(iteration + 1) THEN "fetchReturned" ELSE "fetch"
    /\ UNCHANGED printVars
    /\ UNCHANGED <<traceRest, fetchErr, fetchBase, failedAt>>

(***************************************************************************)
(* The caller receiving the result of the fetch.                           *)
(*   current: processContainerLogs returns the wrapped error, runTrace     *)
(*            logs it and goes on to Print;                                *)
(*   legacy:  runTrace logs the error and goes on with the next container. *)
(***************************************************************************)
\* the error value runTrace receives for a failed log fetch
ReceivedLogsErr(v, containerName, err) ==
    IF v = "current" THEN ContainerLogsErr(containerName, err) ELSE err

\* where runTrace goes on after a failed log fetch
AfterFailedFetch(v) == IF v = "current" THEN "print" ELSE "containers"

AfterFetch ==
    /\ pc = "fetchReturned"
    /\ IF fetchErr # NoErr
       THEN /\ errs' = Append(errs,
                         [from |-> "logs",
                          err |-> ReceivedLogsErr(variant, defs[ci].Name, fetchErr),
                          context |-> input.LogStreamName])
            /\ pc' = AfterFailedFetch(variant)
       ELSE /\ errs' = errs
            /\ pc' = "containers"
    /\ ci' = ci + 1
    /\ FetchIdle
    /\ UNCHANGED pagerVars
    /\ UNCHANGED <<variant, taskGroup, defs, timeline, traceErr, fetched, printed,
                   svcOut, svcErr, svcReceived>>

(***************************************************************************)
(* Timeline.Print: the sort, then the pager.  An action runs Print up to   *)
(* the point where it waits for a line of the standard input, or returns.  *)
(***************************************************************************)
\* the top of the for loop: getPageEvents(page), then renderPage
ShowPage(events, size, page, total) ==
    IF SliceOk(Len(events), size, page)
    THEN /\ shown' = getPageEvents(events, size, page)
         /\ footer' = <<page + 1, total>>
         /\ renders' = renders + 1
         /\ pc' = "pager"
    ELSE /\ pc' = "panic"      \* slice bounds out of range
         /\ UNCHANGED <<shown, footer, renders>>

\* Print of the current revision, on a terminal of the given height
TimelinePrint(height) ==
    /\ pc = "print"
    /\ variant = "current"
    /\ timeline' = sortEvents(variant, timeline)
    /\ printed' = printed + 1
    /\ pageSize' = height - chromeLines
    /\ currentPage' = 0
    /\ IF height - chromeLines = 0
       THEN /\ pc' = "panic"   \* integer divide by zero
            /\ UNCHANGED <<totalPages, shown, footer, renders>>
       ELSE /\ totalPages' = TotalPages(Len(timeline), height - chromeLines)
            /\ ShowPage(sortEvents(variant, timeline), height - chromeLines, 0,
                        TotalPages(Len(timeline), height - chromeLines))
    /\ UNCHANGED <<stdinOpen, reads, lastLine, added>>
    /\ UNCHANGED <<variant, taskGroup, defs, ci, traceErr, errs, fetched, svcOut,
                   svcErr, svcReceived, fetchVars>>

\* Print of the current revision when term.GetSize fails: logged, then return
TimelinePrintNoTerminal ==
    /\ pc = "print"
    /\ variant = "current"
    /\ timeline' = sortEvents(variant, timeline)
    /\ printed' = printed + 1
    /\ pc' = "returned"
    /\ UNCHANGED pagerVars
    /\ UNCHANGED <<variant, taskGroup, defs, ci, traceErr, errs, fetched, svcOut,
                   svcErr, svcReceived, fetchVars>>

\* Print of the legacy revision: the sort, then every event on its own line
TimelinePrintFlat ==
    /\ pc = "print"
    /\ variant = "legacy"
    /\ timeline' = sortEvents(variant, timeline)
    /\ printed' = printed + 1
    /\ shown' = sortEvents(variant, timeline)
    /\ pc' = "returned"
    /\ UNCHANGED <<pageSize, currentPage, totalPages, stdinOpen, reads, lastLine,
                   renders, footer, added>>
    /\ UNCHANGED <<variant, taskGroup, defs, ci, traceErr, errs, fetched, svcOut,
                   svcErr, svcReceived, fetchVars>>

\* what no step of the pager changes
pagerRest == <<variant, taskGroup, defs, ci, timeline, traceErr, errs, fetched, printed,
               svcOut, svcErr, svcReceived, fetchVars, pageSize, totalPages, added>>

\* scanner.Scan() gives a line
ReadLine(line) ==
    /\ pc = "pager"
    /\ stdinOpen
    /\ reads < MaxLines
    /\ reads' = reads + 1
    /\ lastLine' = line
    /\ UNCHANGED <<stdinOpen, pagerRest>>

\* the line is empty: the next page if there is one, then the loop's next round
PagerEmptyLine ==
    /\ ReadLine("")
    /\ currentPage' = NextPage(currentPage, totalPages)
    /\ ShowPage(timeline, pageSize, NextPage(currentPage, totalPages), totalPages)

\* Mutant: q is a line like any other.
PagerQuit_Ignored ==
    /\ ReadLine("q")
    /\ currentPage' = currentPage
    /\ ShowPage(timeline, pageSize, currentPage, totalPages)

\* the line is q: return
PagerQuit ==
    /\ ReadLine("q")
    /\ pc' = "returned"
    /\ UNCHANGED <<currentPage, shown, footer, renders>>

\* Mutant: any other line advances as the empty line does.
PagerOtherLine_Advances(line) ==
    /\ line \notin {"", "q"}
    /\ ReadLine(line)
    /\ currentPage' = NextPage(currentPage, totalPages)
    /\ ShowPage(timeline, pageSize, NextPage(currentPage, totalPages), totalPages)

\* any other line: the loop's next round
PagerOtherLine(line) ==
    /\ line \notin {"", "q"}
    /\ ReadLine(line)
    /\ currentPage' = currentPage
    /\ ShowPage(timeline, pageSize, currentPage, totalPages)

\* Mutant: at the end of the input Print is started again.
PagerEOF_PrintsAgain ==
    /\ pc = "pager"
    /\ lastLine' = EOF
    /\ stdinOpen' = FALSE
    /\ pc' = "print"
    /\ UNCHANGED <<reads, currentPage, shown, footer, renders, pagerRest>>

\* scanner.Scan() returns false (end of input, or a read error): return
PagerEOF ==
    /\ pc = "pager"
    /\ lastLine' = EOF
    /\ stdinOpen' = FALSE
    /\ pc' = "returned"
    /\ UNCHANGED <<reads, currentPage, shown, footer, renders, pagerRest>>

Next ==
    \/ DescribeTasksFail
    \/ DescribeTasksEmpty
    \/ \E g \in Groups : DescribeTasksOk(g)
    \/ FetchServiceEventsFail
    \/ FetchServiceEventsNotFound
    \/ \E n \in 0..MaxSvcEvents : FetchServiceEventsOk(n)
    \/ AfterServiceEvents
    \/ DescribeTaskDefinitionFail
    \/ \E d \in ContainerDefsSet : DescribeTaskDefinitionOk(d)
    \/ ContainersDone
    \/ SkipContainer
    \/ StartFetch
    \/ GetLogEventsFail
    \/ \E n \in 0..MaxPageLen, tok \in RespTokens : GetLogEventsOk(n, tok)
    \/ AfterFetch
    \/ \E h \in TermHeights : TimelinePrint(h)
    \/ TimelinePrintNoTerminal
    \/ TimelinePrintFlat
    \/ PagerEOF

Spec == Init /\ [][Next]_vars

(***************************************************************************)
(* One log fetch on its own: runTrace has described a task that belongs to *)
(* no service and whose definition holds one awslogs container, and is at  *)
(* the head of the container loop.  The program is sequential, so a step   *)
(* that can be taken is taken: weak fairness of the next step.             *)
(***************************************************************************)
FetchInit ==
    /\ variant \in Variants
    /\ pc = "containers"
    /\ taskGroup = "family:"
    /\ defs = <<[Name |-> ContainerName(1), LogConfiguration |-> LogDriverAwslogs]>>
    /\ ci = 1
    /\ timeline = <<>>
    /\ traceErr = NoErr
    /\ errs = <<>>
    /\ fetched = <<>>
    /\ printed = 0
    /\ svcOut = "none"
    /\ svcErr = NoErr
    /\ svcReceived = <<>>
    /\ input = NoInput
    /\ iteration = 0
    /\ nextToken = NIL
    /\ fetchErr = NoErr
    /\ fetchBase = <<>>
    /\ requests = 0
    /\ lastReq = NoReq
    /\ lastResp = NoResp
    /\ repeatSeen = FALSE
    /\ received = <<>>
    /\ failedAt = 0
    /\ PagerIdle
    /\ stdinOpen = FALSE

FetchNext ==
    \/ StartFetch
    \/ GetLogEventsFail
    \/ \E n \in 0..MaxPageLen, tok \in RespTokens : GetLogEventsOk(n, tok)
    \/ AfterFetch

FetchSpec == FetchInit /\ [][FetchNext]_vars /\ WF_vars(FetchNext)

(***************************************************************************)
(* Properties of fetchCloudWatchLogsToTimeline.                            *)
(***************************************************************************)
\* C1: whatever the log store answers, a fetch never issues more than
\* maxIteration GetLogEvents requests, and a running fetch always returns.
C1_FetchTerminatesWithinCap ==
    /\ [](requests <= maxIteration)
    /\ [](pc = "fetch" => <>(pc = "fetchReturned"))

\* C1 witness: the store returned a token different from the previous one on
\* every response and the cap ended the fetch at its tenth request.
C1_Witness ==
    /\ pc = "fetchReturned"
    /\ requests = maxIteration
    /\ iteration = maxIteration
    /\ lastResp \in Tokens
    /\ ~repeatSeen
    /\ fetchErr = NoErr

\* C2 (as claimed): once a response returns the token its request sent, the
\* fetch has returned, without error.
C2_StopsOnSentToken ==
    (requests >= 1 /\ lastResp \in Tokens /\ lastReq.NextToken = lastResp)
        => (pc = "fetchReturned" /\ fetchErr = NoErr)

\* C3 (as claimed): a fetch in which two consecutive responses returned the
\* same token ends with fewer than maxIteration requests issued.
C3_RepeatEndsBelowCap ==
    (pc = "fetchReturned" /\ repeatSeen) => requests < maxIteration

\* C3 (amended): when two consecutive responses return the same token the
\* fetch returns at the second of them by the token test, without error,
\* having issued at most maxIteration requests.
C3_RepeatEndsFetch ==
    repeatSeen =>
        /\ pc = "fetchReturned"
        /\ fetchErr = NoErr
        /\ requests = iteration + 1
        /\ requests <= maxIteration

\* C3 witness: the repetition is in the ninth and tenth responses, and the
\* fetch ends with maxIteration requests issued.
C3_Witness ==
    /\ pc = "fetchReturned"
    /\ repeatSeen
    /\ requests = maxIteration

\* C4: a fetch none of whose requests failed returns no error, and the
\* Timeline is what it was before, in the same order, followed by one event
\* per record received, in the order received, labelled with the container.
C4_FetchAppendsEveryRecord ==
    (pc = "fetchReturned" /\ failedAt = 0) =>
        /\ fetchErr = NoErr
        /\ timeline = fetchBase \o EventsOf(received, defs[ci].Name)

\* C4 witness: two pages of three records, then a page with a repeated token:
\* six events added.
C4_Witness ==
    /\ pc = "fetchReturned"
    /\ failedAt = 0
    /\ requests = 3
    /\ repeatSeen
    /\ Len(received) = 6
    /\ Len(timeline) = Len(fetchBase) + 6

\* C5 (as claimed): the first request of a fetch carries no token and asks
\* to start from the head of the stream.
C5_FirstRequestFromHead ==
    requests = 1 => (lastReq.NextToken = NIL /\ lastReq.StartFromHead = "true")

\* C6: a request that follows a response with a forward token carries that
\* token, and its StartFromHead is unset.
C6_RequestCarriesPreviousToken ==
    [][(requests' = requests + 1 /\ lastResp \in Tokens)
          => (lastReq'.NextToken = lastResp /\ lastReq'.StartFromHead = NIL)]_vars

\* C6 witness: the third request of a fetch has carried the token "A".
C6_Witness ==
    /\ requests = 3
    /\ lastReq.NextToken = "A"
    /\ lastReq.StartFromHead = NIL

\* C7: a fetch whose k-th request failed has returned an error right there,
\* and the Timeline is what it was before the fetch followed by the events
\* of the k-1 pages received, nothing else.
C7_FailedRequestEndsFetch ==
    (pc = "fetchReturned" /\ failedAt > 0) =>
        /\ fetchErr # NoErr
        /\ requests = failedAt
        /\ iteration = failedAt - 1
        /\ timeline = fetchBase \o EventsOf(received, defs[ci].Name)

\* C7 witness: the third request failed after two pages with records, on a
\* Timeline that held events before the fetch.
C7_Witness ==
    /\ pc = "fetchReturned"
    /\ failedAt = 3
    /\ fetchBase # <<>>
    /\ Len(received) >= 2
    /\ Len(timeline) = Len(fetchBase) + Len(received)

(***************************************************************************)
(* Properties of runTrace and fetchServiceEvents.                          *)
(***************************************************************************)
\* the text of the error err contains the text ctx
Carries(err, ctx) ==
    \E i \in 1..(Len(err) - Len(ctx) + 1) : SubSeq(err, i, i + Len(ctx) - 1) = ctx

\* C8 (as claimed): every sub-fetch error runTrace receives carries its
\* context: the log-stream identifier of a failed log fetch, the service
\* name of a failed service-event fetch.
C8_ErrorsCarryContext ==
    \A i \in 1..Len(errs) : Carries(errs[i].err, errs[i].context)

\* C9 (as claimed): when runTrace has returned without error, the Timeline
\* has been presented and a log fetch was invoked for every awslogs
\* container of the task definition, whichever sub-fetch failed.
C9_EveryContainerFetched ==
    (pc = "returned" /\ traceErr = NoErr) =>
        /\ printed = 1
        /\ \A i \in 1..Len(defs) :
              isAwslogsDriver(defs[i].LogConfiguration)
                  => \E j \in 1..Len(fetched) : fetched[j] = i

\* C10: when fetchServiceEvents has returned, a lookup that found no
\* service gave an error and an empty Timeline (runTrace created it empty),
\* and a lookup that found the service gave no error and a Timeline of one
\* "SERVICE" event per lifecycle event, in order.
C10_ServiceEvents ==
    pc = "serviceReturned" =>
        /\ svcOut = "notfound" => (svcErr # NoErr /\ timeline = <<>>)
        /\ svcOut = "ok" =>
              /\ svcErr = NoErr
              /\ timeline = [k \in 1..Len(svcReceived) |->
                                [Timestamp |-> svcReceived[k].CreatedAt,
                                 Source    |-> "SERVICE",
                                 Message   |-> svcReceived[k].Message]]

\* C10 witness: the service was found with two lifecycle events, both added.
C10_Witness ==
    /\ pc = "serviceReturned"
    /\ svcOut = "ok"
    /\ Len(svcReceived) = 2
    /\ Len(timeline) = 2
    /\ timeline[1].Message = 1
    /\ timeline[2].Message = 2

(***************************************************************************)
(* A Timeline used on its own, as TestTimelineAddAndPrint uses it: events  *)
(* are added in any order, then Print runs with lines on standard input.   *)
(***************************************************************************)
TestMsgs == {1, 2}

TimelineInit ==
    /\ variant \in Variants
    /\ pc = "print"
    /\ taskGroup = NIL
    /\ defs = <<>>
    /\ ci = 0
    /\ timeline = <<>>
    /\ traceErr = NoErr
    /\ errs = <<>>
    /\ fetched = <<>>
    /\ printed = 0
    /\ svcOut = "none"
    /\ svcErr = NoErr
    /\ svcReceived = <<>>
    /\ input = NoInput
    /\ iteration = 0
    /\ nextToken = NIL
    /\ fetchErr = NoErr
    /\ fetchBase = <<>>
    /\ requests = 0
    /\ lastReq = NoReq
    /\ lastResp = NoResp
    /\ repeatSeen = FALSE
    /\ received = <<>>
    /\ failedAt = 0
    /\ PagerIdle
    /\ stdinOpen = TRUE

\* tl.Add(newEvent(ts, "TEST", msg))
TimelineAdd(ts, msg) ==
    /\ pc = "print"
    /\ Len(added) < MaxAdds
    /\ timeline' = Add(timeline, newEvent(ts, "TEST", msg))
    /\ added' = Append(added, newEvent(ts, "TEST", msg))
    /\ UNCHANGED <<variant, pc, taskGroup, defs, ci, traceErr, errs, fetched, printed,
                   svcOut, svcErr, svcReceived, fetchVars>>
    /\ UNCHANGED <<pageSize, currentPage, totalPages, stdinOpen, reads, lastLine,
                   renders, shown, footer>>

TimelineNext ==
    \/ \E ts \in 1..MaxTs, msg \in TestMsgs : TimelineAdd(ts, msg)
    \/ \E h \in TermHeights : TimelinePrint(h)
    \/ TimelinePrintNoTerminal
    \/ TimelinePrintFlat
    \/ PagerEmptyLine
    \/ PagerQuit
    \/ \E line \in Lines : PagerOtherLine(line)
    \/ PagerEOF

TimelineSpec == TimelineInit /\ [][TimelineNext]_vars /\ WF_vars(TimelineNext)

(***************************************************************************)
(* Claims about the Timeline's order.                                      *)
(***************************************************************************)
\* the events of a sequence that carry timestamp t, in the sequence's order
AtTime(events, t) ==
    LET Has(e) == e.Timestamp = t IN SelectSeq(events, Has)

\* how often an event occurs in a sequence
Count(events, e) == Cardinality({k \in 1..Len(events) : events[k] = e})

C12_PrintSortsAscending ==
    printed > 0 =>
        \A i, j \in 1..Len(timeline) :
            i < j => timeline[i].Timestamp <= timeline[j].Timestamp

\* C13: n calls of Add leave n events, and the sorted sequence is a
\* permutation of the events added: none dropped, none duplicated.
C13_AddAndSortKeepEveryEvent ==
    /\ Len(timeline) = Len(added)
    /\ \A k \in 1..Len(added) : Count(timeline, added[k]) = Count(added, added[k])
    /\ printed = 0 => timeline = added

\* a sorted Timeline that holds one event twice and was reordered by the sort
C13_Witness ==
    /\ printed > 0
    /\ Len(added) = MaxAdds
    /\ added[1] = added[2]
    /\ timeline # added

(***************************************************************************)
(* Claims about the pager.                                                 *)
(***************************************************************************)
\* pages first..last of a Timeline, one after the other
RECURSIVE PagesConcat(_, _, _, _)
PagesConcat(events, size, first, last) ==
    IF first > last THEN <<>>
    ELSE getPageEvents(events, size, first) \o PagesConcat(events, size, first + 1, last)

\* the number of events of a page, from the bounds of its slice
PageLen(n, size, page) == PageEnd(n, size, page) - PageStart(size, page)

\* C14: for a page size of at least one, the page count is the event count
\* divided by the page size, rounded up; pages 0..totalPages-1 one after the
\* other are the sorted sequence; every page but the last holds pageSize
\* events and the last holds the remainder (pageSize when it is zero); twelve
\* events at page size five give pages of 5, 5 and 2.
C14_PagesPartitionTimeline ==
    /\ (variant = "current" /\ pageSize >= 1) =>
          /\ totalPages = TotalPages(Len(timeline), pageSize)
          /\ totalPages * pageSize >= Len(timeline)
          /\ (totalPages - 1) * pageSize < Len(timeline)
          /\ PagesConcat(timeline, pageSize, 0, totalPages - 1) = timeline
          /\ \A p \in 0..(totalPages - 2) :
                Len(getPageEvents(timeline, pageSize, p)) = pageSize
          /\ totalPages > 0 =>
                Len(getPageEvents(timeline, pageSize, totalPages - 1)) =
                    IF Len(timeline) % pageSize = 0 THEN pageSize
                    ELSE Len(timeline) % pageSize
          /\ pc = "pager" => shown = getPageEvents(timeline, pageSize, currentPage)
    /\ TotalPages(12, 5) = 3
    /\ <<PageLen(12, 5, 0), PageLen(12, 5, 1), PageLen(12, 5, 2)>> = <<5, 5, 2>>

\* three events at page size two: the pager shows the second, last page, which
\* holds the one remaining event
C14_Witness ==
    /\ pc = "pager"
    /\ pageSize = 2
    /\ Len(timeline) = 3
    /\ totalPages = 2
    /\ currentPage = 1
    /\ Len(shown) = 1

\* C15: an empty line advances the current page by exactly one when it is not
\* the last page and leaves it unchanged when it is (the pager never moves to
\* a page beyond the last), however many empty lines are read; the page then
\* rendered is the current one.
C15_EmptyLineAdvancesToLast ==
    [][(pc = "pager" /\ reads' = reads + 1 /\ lastLine' = "") =>
          /\ currentPage < totalPages - 1 => currentPage' = currentPage + 1
          /\ currentPage >= totalPages - 1 => currentPage' = currentPage
          /\ currentPage' # currentPage => currentPage' <= totalPages - 1
          /\ pc' = "pager"
          /\ renders' = renders + 1
          /\ shown' = getPageEvents(timeline, pageSize, currentPage')
          /\ footer' = <<currentPage' + 1, totalPages>>]_vars

\* three pages, four empty lines: two advanced, two left the last page in place
C15_Witness ==
    /\ pc = "pager"
    /\ totalPages = 3
    /\ currentPage = 2
    /\ reads = 4
    /\ renders = 5
    /\ lastLine = ""

\* C16: the pager's loop ends on, and only on, a line q or the end of the
\* input; Print then returns without rendering again; no other line ends it;
\* and since the input is finite, the pager eventually returns.
C16_EndsOnQuitOrEOF ==
    /\ [][pc = "pager" =>
            /\ pc' # pc => /\ pc' = "returned"
                           /\ lastLine' \in {"q", EOF}
                           /\ renders' = renders
                           /\ shown' = shown
                           /\ currentPage' = currentPage
            /\ lastLine' \in {"q", EOF} => pc' = "returned"
            /\ (reads' = reads + 1 /\ lastLine' \notin {"q", EOF}) => pc' = "pager"]_vars
    /\ (pc = "pager") ~> (pc = "returned")

\* Print has returned on q after other lines, each of which rendered a page
C16_Witness ==
    /\ pc = "returned"
    /\ lastLine = "q"
    /\ reads >= 3
    /\ renders = reads
    /\ currentPage > 0

\* C20: the current page never decreases; it changes only in response to an
\* empty line; a non-empty line other than q leaves it unchanged and the same
\* page is rendered again.
C20_ForwardOnly ==
    [][pc = "pager" =>
          /\ currentPage' >= currentPage
          /\ currentPage' # currentPage => (reads' = reads + 1 /\ lastLine' = "")
          /\ (reads' = reads + 1 /\ lastLine' \notin {"", "q", EOF}) =>
                /\ currentPage' = currentPage
                /\ pc' = "pager"
                /\ renders' = renders + 1
                /\ shown' = shown
                /\ footer' = footer]_vars

\* a line other than the empty one and q was read on the second of two pages,
\* which was rendered again
C20_Witness ==
    /\ pc = "pager"
    /\ lastLine = "x"
    /\ currentPage = 1
    /\ totalPages = 2
    /\ reads = 2
    /\ renders = 3
    /\ shown # <<>>

(***************************************************************************)
(* Claims about runTrace and processContainerLogs.                         *)
(***************************************************************************)
\* C17: when describing the task fails, returns no task, or describing the
\* task definition fails, runTrace returns an error, no log fetch of a
\* container is invoked and the Timeline is never presented, whatever service
\* events it already holds; runTrace returns without Print in no other case.
C17_FatalErrorsSkipFetchAndPrint ==
    /\ traceErr # NoErr =>
          /\ pc = "returned"
          /\ traceErr \in {DescribeTasksErr(TransportErr), TaskNotFoundErr(TaskID),
                           DescribeTaskDefErr(TransportErr)}
          /\ fetched = <<>>
          /\ printed = 0
          /\ renders = 0
          /\ shown = <<>>
    /\ (pc = "returned" /\ printed = 0) => traceErr # NoErr

\* describing the task definition failed after service events were collected
C17_Witness ==
    /\ pc = "returned"
    /\ traceErr = DescribeTaskDefErr(TransportErr)
    /\ Len(timeline) = MaxSvcEvents
    /\ svcOut = "ok"

\* the place of a source label in the order of the writers: the service
\* first, then the containers in definition order
SourceRank(source) ==
    IF source = "SERVICE" THEN 0
    ELSE CHOOSE k \in 1..Len(ContainerNames) : ContainerNames[k] = source

\* the positions of runTrace from the start of Print on
PrintStarted == {"pager", "panic", "returned"}

\* C18: one writer phase, then one reader phase: every Add (the service
\* events first, then each container's log records in definition order)
\* completes before Print starts, nothing is added once Print has started,
\* and Print is invoked at most once.
C18_WritersThenOneReader ==
    /\ printed <= 1
    /\ printed = 0 =>
          /\ pc \notin PrintStarted \/ traceErr # NoErr
          /\ timeline = added
          /\ \A i \in 1..(Len(timeline) - 1) :
                SourceRank(timeline[i].Source) <= SourceRank(timeline[i + 1].Source)
    /\ printed = 1 =>
          /\ pc \in PrintStarted
          /\ timeline = sortEvents(variant, added)

\* runTrace has returned after one Print of a Timeline that the service and
\* two containers wrote to
C18_Witness ==
    /\ pc = "returned"
    /\ traceErr = NoErr
    /\ printed = 1
    /\ \E i, j, k \in 1..Len(timeline) :
          /\ timeline[i].Source = "SERVICE"
          /\ timeline[j].Source = ContainerName(1)
          /\ timeline[k].Source = ContainerName(2)

\* the container definitions on the awslogs driver, in definition order
RECURSIVE AwslogsIndices(_, _)
AwslogsIndices(d, from) ==
    IF from > Len(d) THEN <<>>
    ELSE IF d[from].LogConfiguration = LogDriverAwslogs
         THEN <<from>> \o AwslogsIndices(d, from + 1)
         ELSE AwslogsIndices(d, from + 1)

\* C19 (as claimed): processContainerLogs invokes a fetch for exactly the
\* container definitions whose log configuration is present and names the
\* awslogs driver, in definition order, each for the stream
\* <prefix>/<container name>/<task id> and with the container name as source
\* label; the other container definitions are skipped without error.
C19_FetchesExactlyAwslogs ==
    /\ pc \in {"fetch", "fetchReturned"} =>
          /\ defs[ci].LogConfiguration = LogDriverAwslogs
          /\ input.LogGroupName = LogGroup
          /\ input.LogStreamName = <<Prefix, "/", defs[ci].Name, "/", TaskArn[3]>>
          /\ \A k \in (Len(fetchBase) + 1)..Len(timeline) :
                timeline[k].Source = defs[ci].Name
    /\ \A k \in 1..Len(errs) :
          errs[k].from = "logs" =>
              \E i \in 1..Len(defs) :
                  /\ defs[i].LogConfiguration = LogDriverAwslogs
                  /\ errs[k].context[3] = defs[i].Name
    /\ (pc \in {"print"} \cup PrintStarted /\ traceErr = NoErr) =>
          fetched = AwslogsIndices(defs, 1)

(***************************************************************************)
(* Claims about the page size, the footer and the cursor of a fetch.       *)
(***************************************************************************)
\* C21 (as claimed): for every terminal height term.GetSize reports without
\* error, heights of five lines or fewer included, the page size Print
\* derives is at least one, so Print neither divides by zero when it
\* computes the page count nor slices the current page out of range.
C21_PageSizeAtLeastOne ==
    /\ pc # "panic"
    /\ (printed > 0 /\ renders > 0) => pageSize >= 1

\* C22 (as claimed): in every page the pager renders the footer "Page X/Y"
\* satisfies 1 <= X <= Y, the current page being a valid page index
\* (0 <= currentPage < totalPages), for every event count, zero included.
C22_FooterWithinRange ==
    renders > 0 =>
        /\ 1 <= footer[1]
        /\ footer[1] <= footer[2]
        /\ 0 <= currentPage
        /\ currentPage < totalPages

\* C23 (as claimed): within one fetch every request after the first uses a
\* cursor different from the cursor of the request before it, whatever the
\* log store answers, a response without forward token included.
C23_ConsecutiveRequestsDiffer ==
    [][(requests >= 1 /\ requests' = requests + 1)
          => lastReq'.NextToken # lastReq.NextToken]_vars

====
